---- MODULE Spec2Model ----
(***************************************************************************)
(* Model of the `view!` macro of leptos-altview: src/src/lib.rs (entry     *)
(* point) and src/src/node.rs (Node / Field / Attr / Class / ClassValue /  *)
(* Style / Children / Child parsers and their ToTokens generators).        *)
(*                                                                         *)
(* A token stream is a sequence of strings.  Delimited groups are written  *)
(* flat, with "(" and ")" tokens that are always balanced (the compiler's  *)
(* lexer hands a macro nothing else).  A parse buffer is a cursor position *)
(* plus the position one past the buffer's last token.                     *)
(***************************************************************************)
EXTENDS Integers, Sequences, FiniteSets, TLC

VARIABLES
    tokens,               \* the literal handed to view!
    pc,                   \* position inside view / Node::parse
    input_pos,            \* cursor of `input`, the outer stream
    content_pos,          \* cursor of `content`, the first group's buffer
    content_end,          \* one past the last token of `content`
    content_at_fork,      \* position of `content` when content.fork() ran
    fork_pos,             \* cursor of `fork` (Node::parse); ClassValue's `input`
    cv_at_fork,           \* position of ClassValue's `input` when input.fork() ran
    cv_fork_pos,          \* cursor of `fork` (ClassValue::parse)
    new_attrs,            \* fields parsed so far by parse_terminated on the fork
    attrs_err,            \* the field list's error (attrs_err), <<>> if none
    tag,
    fields_paren_token,
    fields,
    children_paren_token,
    children,
    parsed_children,
    unexpected,           \* a group buffer was dropped with tokens left in it
    ret,                  \* what Node::parse returned: "none", "ok", "err"
    node_err,             \* the syn::Error Node::parse returned (its messages)
    outcome,              \* what view returned: "none", "tokens", "diagnostic"
    output                \* the token stream view returned (call fragments)

vars == <<tokens, pc, input_pos, content_pos, content_end, content_at_fork,
          fork_pos, cv_at_fork, cv_fork_pos, new_attrs, attrs_err, tag,
          fields_paren_token, fields, children_paren_token, children,
          parsed_children, unexpected, ret, node_err, outcome, output>>

(***************************************************************************)
(* Bounds of the explored inputs.                                          *)
(***************************************************************************)
MaxFields == 2       \* entries in the first parenthesized group
MaxChildren == 2     \* entries in the second parenthesized group

(***************************************************************************)
(* Tokens.                                                                 *)
(***************************************************************************)
Idents == {"div", "id", "x", "class", "style"}
Lits == {"lit"}

\* Position of the ")" closing the group whose "(" is just before position i
\* (d = nesting depth still open); 0 if there is none.
RECURSIVE MatchFrom(_, _, _)
MatchFrom(s, i, d) ==
    IF i > Len(s) THEN 0
    ELSE IF s[i] = "(" THEN MatchFrom(s, i + 1, d + 1)
    ELSE IF s[i] = ")" THEN (IF d = 1 THEN i ELSE MatchFrom(s, i + 1, d - 1))
    ELSE MatchFrom(s, i + 1, d)

Match(s, p) == MatchFrom(s, p + 1, 1)

\* input.peek(token::Paren) on the buffer [p, e)
PeekParen(s, p, e) == p < e /\ s[p] = "("

(***************************************************************************)
(* The host expression parser (syn::Expr), on the buffer [p, e):           *)
(*   expr    := postfix [ "=" expr ]                                       *)
(*   postfix := atom { "(" args ")" }                                      *)
(*   atom    := ident | literal | "(" ")" | "(" expr ")" | "(" e, ... ")"  *)
(* A result is [ok, next, tuple, elems]: whether it parsed, the cursor     *)
(* after it, whether it is an Expr::Tuple, and the tuple's elements.       *)
(***************************************************************************)
ExprFail == [ok |-> FALSE, next |-> 0, tuple |-> FALSE, elems |-> <<>>]

\* A syn::Error is the sequence of its messages, each with the position of
\* the token it is anchored at.
Error(msg, at) == <<[msg |-> msg, at |-> at]>>

ListOk(elems, trailing) ==
    [ok |-> TRUE, elems |-> elems, trailing |-> trailing, err |-> <<>>]

ListFail(msg, at) ==
    [ok |-> FALSE, elems |-> <<>>, trailing |-> FALSE, err |-> Error(msg, at)]

RECURSIVE ParseExpr(_, _, _)
RECURSIVE ParseTerminatedExpr(_, _, _)
RECURSIVE ParsePostfix(_, _, _)

ExprOk(next, tuple, elems) ==
    [ok |-> TRUE, next |-> next, tuple |-> tuple, elems |-> elems]

\* parse_terminated: the value x pushed in front of the rest of the list.
Pushed(x, rest) ==
    IF ~rest.ok THEN rest
    ELSE ListOk(<<x>> \o rest.elems,
                IF rest.elems = <<>> THEN TRUE ELSE rest.trailing)

\* parse_terminated after its first value r, parsed from p: the list ends
\* with the buffer, otherwise a comma and the rest of the list follow.
TerminatedAfter(s, p, e, r) ==
    IF ~r.ok THEN ListFail("expected expression", p)
    ELSE IF r.next = e THEN ListOk(<<SubSeq(s, p, r.next - 1)>>, FALSE)
    ELSE IF s[r.next] # "," THEN ListFail("expected comma", r.next)
    ELSE Pushed(SubSeq(s, p, r.next - 1),
                ParseTerminatedExpr(s, r.next + 1, e))

\* input.parse_terminated(<Expr>, Token![,]) on the whole buffer [p, e):
\* zero or more expressions separated by commas, a trailing comma allowed.
ParseTerminatedExpr(s, p, e) ==
    IF p >= e THEN ListOk(<<>>, FALSE)
    ELSE TerminatedAfter(s, p, e, ParseExpr(s, p, e))

\* A call suffix whose group closes at m, with its parsed arguments.
PostfixAfter(s, m, e, args) ==
    IF args.ok THEN ParsePostfix(s, m + 1, e) ELSE 0

\* Call suffixes after an atom that ended at q: position after the last one,
\* 0 if an argument list does not parse.
ParsePostfix(s, q, e) ==
    IF PeekParen(s, q, e)
    THEN PostfixAfter(s, Match(s, q), e,
                      ParseTerminatedExpr(s, q + 1, Match(s, q)))
    ELSE q

\* A group that closes at m with content l: unit, parenthesized or tuple.
GroupExpr(m, l) ==
    IF ~l.ok THEN ExprFail
    ELSE ExprOk(m + 1, Len(l.elems) # 1 \/ l.trailing, l.elems)

ParseAtom(s, p, e) ==
    IF p >= e THEN ExprFail
    ELSE IF s[p] \in Idents \cup Lits THEN ExprOk(p + 1, FALSE, <<>>)
    ELSE IF s[p] = "("
         THEN GroupExpr(Match(s, p), ParseTerminatedExpr(s, p + 1, Match(s, p)))
    ELSE ExprFail

\* An assignment with right-hand side rhs.
Assignment(rhs) ==
    IF ~rhs.ok THEN ExprFail ELSE ExprOk(rhs.next, FALSE, <<>>)

\* The expression that starts with atom a and whose call suffixes end at q.
ExprAfter(s, e, a, q) ==
    IF q = 0 THEN ExprFail
    ELSE IF q < e /\ s[q] = "=" THEN Assignment(ParseExpr(s, q + 1, e))
    ELSE ExprOk(q, a.tuple /\ q = a.next,
                IF a.tuple /\ q = a.next THEN a.elems ELSE <<>>)

ExprFrom(s, e, a) ==
    IF ~a.ok THEN ExprFail ELSE ExprAfter(s, e, a, ParsePostfix(s, a.next, e))

ParseExpr(s, p, e) == ExprFrom(s, e, ParseAtom(s, p, e))

(***************************************************************************)
(* Grammar node parsers of node.rs, on the buffer [p, e).                  *)
(***************************************************************************)
IsIdent(s, p, e) == p < e /\ s[p] \in Idents

IsEq(s, p, e) == p < e /\ s[p] = "="

NoTrailing(r, e) ==
    IF r.ok /\ r.trailing THEN ListFail("unexpected end of input", e) ELSE r

\* Children::parse with a list parser that takes no trailing comma.
ChildrenParseNoTrailing(s, p, e) == NoTrailing(ParseTerminatedExpr(s, p, e), e)

\* Children::parse with a list parser that wants at least one child.
ChildrenParseNonEmpty(s, p, e) ==
    IF p >= e THEN ListFail("expected expression", p)
    ELSE ParseTerminatedExpr(s, p, e)

\* Children::parse: the empty stream is the empty list, anything else is
\* input.parse_terminated(Child::parse, Token![,]); a Child is an expression.
ChildrenParse(s, p, e) ==
    IF p >= e THEN ListOk(<<>>, FALSE) ELSE ParseTerminatedExpr(s, p, e)

\* A parsed Field: Attr, Class (Static or Dynamic value) or Style.
AttrField(name, value) ==
    [variant |-> "Attr", name |-> name, value |-> <<value>>]

StyleField(value) == [variant |-> "Style", name |-> "style", value |-> <<value>>]

ClassStatic(value) ==
    [variant |-> "ClassStatic", name |-> "class", value |-> <<value>>]

ClassDynamic(name, class) ==
    [variant |-> "ClassDynamic", name |-> "class", value |-> <<name, class>>]

FieldOk(field, next) ==
    [ok |-> TRUE, field |-> field, next |-> next, err |-> <<>>]

FieldFail(msg, at) ==
    [ok |-> FALSE, field |-> AttrField("", <<>>), next |-> at,
     err |-> Error(msg, at)]

\* Attr::parse and Style::parse: name, "=", value expression.  Field::parse
\* has already peeked the name of a Style; the name of an Attr is any identifier.
\* value: input.parse()? for the name at p, v being the parsed expression.
AttrWithValue(s, p, v) ==
    IF ~v.ok THEN FieldFail("expected expression", p + 2)
    ELSE FieldOk(AttrField(s[p], SubSeq(s, p + 2, v.next - 1)), v.next)

AttrParse(s, p, e) ==
    IF ~IsIdent(s, p, e) THEN FieldFail("expected identifier", p)
    ELSE IF ~IsEq(s, p + 1, e) THEN FieldFail("expected equals sign", p + 1)
    ELSE AttrWithValue(s, p, ParseExpr(s, p + 2, e))

\* The Style with the name and value r holds.
StyleOf(r) ==
    IF r.ok THEN FieldOk(StyleField(r.field.value[1]), r.next) ELSE r

StyleParse(s, p, e) == StyleOf(AttrParse(s, p, e))

\* The decimal text of a count ({} in format!).
CountText(n) ==
    IF n \in 0..9
    THEN <<"0", "1", "2", "3", "4", "5", "6", "7", "8", "9">>[n + 1]
    ELSE "many"

\* The arity check without the test for a third element.
TupleToClassValueLoose(elems, at) ==
    IF Len(elems) < 2
    THEN FieldFail("expected a tuple with 2 items", at)
    ELSE FieldOk(ClassDynamic(elems[1], elems[2]), at)

\* ClassValue::parse after the tuple parsed: the arity check on its elements.
\* `at` is the fork's cursor, where fork.error anchors.
TupleToClassValue(elems, at) ==
    IF Len(elems) < 2
    THEN FieldFail("expected a tuple with 2 items", at)
    ELSE IF Len(elems) > 2
    THEN FieldFail("tuple has " \o CountText(Len(elems)) \o " items, expected 2",
                   at)
    ELSE FieldOk(ClassDynamic(elems[1], elems[2]), at)

\* fork.parse::<ExprTuple>(): an expression that is a tuple expression.
OnlyTuple(r) == IF r.ok /\ r.tuple THEN r ELSE ExprFail

ExprTupleParse(s, p, e) == OnlyTuple(ParseExpr(s, p, e))

\* parse_terminated after a value that ended at q: the list ends with the
\* buffer, otherwise a comma must follow.
PunctOk(s, q, e) == q >= e \/ s[q] = ","

AfterPunct(q, e) == IF q >= e THEN q ELSE q + 1

(***************************************************************************)
(* Code generator (ToTokens).  The output is a sequence of call fragments, *)
(* each a method (or constructor path) with its argument token streams.    *)
(***************************************************************************)
Call(method, args) == [method |-> method, args |-> args]

\* name.to_string() quoted back: a string literal token.
StringLit(name) == <<"\"" \o name \o "\"">>

AttrToTokens(f) == <<Call("attr", <<StringLit(f.name), f.value[1]>>)>>

ClassToTokens(f) ==
    IF f.variant = "ClassStatic"
    THEN <<Call("classes", <<f.value[1]>>)>>
    ELSE <<Call("class", <<f.value[1], f.value[2]>>)>>

StyleToTokens(f) == <<Call("style", <<f.value[1]>>)>>

FieldToTokens(f) ==
    IF f.variant = "Attr" THEN AttrToTokens(f)
    ELSE IF f.variant = "Style" THEN StyleToTokens(f)
    ELSE ClassToTokens(f)

ChildToTokens(expr) == <<Call("child", <<expr>>)>>

RECURSIVE ChildrenToTokens(_)
ChildrenToTokens(cs) ==
    IF cs = <<>> THEN <<>>
    ELSE ChildToTokens(Head(cs)) \o ChildrenToTokens(Tail(cs))

RECURSIVE FieldsToTokens(_)
FieldsToTokens(fs) ==
    IF fs = <<>> THEN <<>>
    ELSE FieldToTokens(Head(fs)) \o FieldsToTokens(Tail(fs))

\* Node::to_tokens with the children emitted before the fields.
NodeToTokensChildrenFirst(t, fs, cs) ==
    <<Call("leptos::html::" \o t, <<>>)>>
        \o ChildrenToTokens(cs) \o FieldsToTokens(fs)

\* Node::to_tokens: the constructor, each field, the children.
NodeToTokens(t, fs, cs) ==
    <<Call("leptos::html::" \o t, <<>>)>>
        \o FieldsToTokens(fs) \o ChildrenToTokens(cs)

(***************************************************************************)
(* The literals explored: a tag, an optional first group of up to          *)
(* MaxFields entries, an optional second group of up to MaxChildren        *)
(* entries, and optional tokens after them.                                *)
(***************************************************************************)
FieldEntries ==
    { <<"id", "=", "x">>,
      <<"class", "=", "lit">>,
      <<"class", "=", "(", "x", ",", "lit", ")">>,
      <<"class", "=", "(", "x", ",", ")">>,
      <<"class", "=", "(", "x", ",", "x", ",", "lit", ")">>,
      <<"style", "=", "x">>,
      <<"x">>,
      <<"x", "x">> }

ChildEntries == { <<"x">>, <<"lit">> }

\* First-group contents outside the entry lists.
OtherFieldContents ==
    { <<"class", "=", "(", ")">>,
      <<"class", "=", "(", "x", ")">>,
      <<"class", "=", "=">>,
      <<"class">>,
      <<"x", "(", "lit", ")">> }

\* Second-group contents outside the entry lists.
OtherChildContents ==
    { <<"x", "x">>,
      <<"(", "x", ",", "lit", ")">>,
      <<"id", "=", "x">> }

Trailers == { <<>>, <<"x">>, <<"(", ")">> }

\* Literals whose leading token is not a tag.
NoTagLiterals == { <<>>, <<"lit">>, <<"(", ")">> }

RECURSIVE Joined(_, _)
\* Exactly k entries of E separated by commas.
Joined(E, k) ==
    IF k = 0 THEN {<<>>}
    ELSE IF k = 1 THEN E
    ELSE {a \o <<",">> \o b : a \in Joined(E, k - 1), b \in E}

\* Up to n entries of E separated by commas, with or without a trailing comma.
Contents(E, n) ==
    {<<>>} \cup UNION { Joined(E, k) \cup {c \o <<",">> : c \in Joined(E, k)}
                        : k \in 1..n }

Groups(cs) == {<<>>} \cup {<<"(">> \o c \o <<")">> : c \in cs}

Literals ==
    NoTagLiterals \cup
    { <<"div">> \o g1 \o g2 \o t :
        g1 \in Groups(Contents(FieldEntries, MaxFields) \cup OtherFieldContents),
        g2 \in Groups(Contents(ChildEntries, MaxChildren) \cup OtherChildContents),
        t \in Trailers }

(***************************************************************************)
(* view and Node::parse as a state machine.                                *)
(***************************************************************************)
input_end == Len(tokens) + 1

Init ==
    /\ tokens \in Literals
    /\ pc = "tag"
    /\ input_pos = 1
    /\ content_pos = 0 /\ content_end = 0 /\ content_at_fork = 0
    /\ fork_pos = 0 /\ cv_at_fork = 0 /\ cv_fork_pos = 0
    /\ new_attrs = <<>> /\ attrs_err = <<>>
    /\ tag = ""
    /\ fields_paren_token = FALSE /\ fields = <<>>
    /\ children_paren_token = FALSE /\ children = <<>>
    /\ parsed_children = FALSE
    /\ unexpected = FALSE
    /\ ret = "none" /\ node_err = <<>>
    /\ outcome = "none" /\ output = <<>>

cursors == <<content_pos, content_end, content_at_fork, fork_pos, cv_at_fork,
             cv_fork_pos>>

node == <<fields_paren_token, fields, children_paren_token, children,
          parsed_children>>

result == <<ret, node_err, outcome, output>>

\* Node::parse returns Err(e): view is next.
Return(e) == ret' = "err" /\ node_err' = e /\ pc' = "view"

\* let tag = input.parse()?;
ParseTag ==
    /\ pc = "tag"
    /\ IF IsIdent(tokens, input_pos, input_end)
       THEN /\ tag' = tokens[input_pos]
            /\ input_pos' = input_pos + 1
            /\ pc' = "group1"
            /\ UNCHANGED <<ret, node_err>>
       ELSE /\ Return(Error("expected identifier", input_pos))
            /\ UNCHANGED <<tag, input_pos>>
    /\ UNCHANGED <<tokens, cursors, new_attrs, attrs_err, node, unexpected,
                   outcome, output>>

\* if input.peek(token::Paren): parenthesized!(content in input) and
\* content.fork()
OpenFirstGroup ==
    /\ pc = "group1"
    /\ PeekParen(tokens, input_pos, input_end)
    /\ LET m == Match(tokens, input_pos) IN
       /\ content_pos' = input_pos + 1
       /\ content_end' = m
       /\ input_pos' = m + 1
       /\ content_at_fork' = input_pos + 1
       /\ fork_pos' = input_pos + 1
    /\ pc' = "fields"
    /\ UNCHANGED <<tokens, cv_at_fork, cv_fork_pos, new_attrs, attrs_err, tag,
                   node, unexpected, result>>

\* no first group
NoFirstGroup ==
    /\ pc = "group1"
    /\ ~PeekParen(tokens, input_pos, input_end)
    /\ pc' = "group2"
    /\ UNCHANGED <<tokens, input_pos, cursors, new_attrs, attrs_err, tag, node,
                   unexpected, result>>

\* parse_terminated pushed a field whose parse ended at q.
FieldParsed(f, q) ==
    /\ new_attrs' = Append(new_attrs, f)
    /\ IF PunctOk(tokens, q, content_end)
       THEN /\ fork_pos' = AfterPunct(q, content_end)
            /\ pc' = "fields"
            /\ UNCHANGED attrs_err
       ELSE /\ fork_pos' = q
            /\ pc' = "fallback"
            /\ attrs_err' = Error("expected comma", q)

\* parse_terminated returns the error of Field::parse.
FieldFailed(e, q) ==
    /\ fork_pos' = q
    /\ pc' = "fallback"
    /\ attrs_err' = e
    /\ UNCHANGED new_attrs

\* parse_terminated takes the result r of Field::parse.
FieldResult(r) ==
    IF r.ok THEN FieldParsed(r.field, r.next) ELSE FieldFailed(r.err, r.next)

\* Field::parse, the Attr and Style arms, inside fork.parse_terminated
ParseAttrOrStyle ==
    /\ pc = "fields"
    /\ fork_pos < content_end
    /\ tokens[fork_pos] # "class"
    /\ FieldResult(IF tokens[fork_pos] = "style"
                   THEN StyleParse(tokens, fork_pos, content_end)
                   ELSE AttrParse(tokens, fork_pos, content_end))
    /\ UNCHANGED <<tokens, input_pos, content_pos, content_end, content_at_fork,
                   cv_at_fork, cv_fork_pos, tag, node, unexpected, result>>

\* Field::parse, the Class arm: Class::parse reads the name and "=", then
\* ClassValue::parse forks its input.
ParseClass ==
    /\ pc = "fields"
    /\ fork_pos < content_end
    /\ tokens[fork_pos] = "class"
    /\ IF IsEq(tokens, fork_pos + 1, content_end)
       THEN /\ fork_pos' = fork_pos + 2
            /\ cv_at_fork' = fork_pos + 2
            /\ cv_fork_pos' = fork_pos + 2
            /\ pc' = "classvalue"
            /\ UNCHANGED <<new_attrs, attrs_err>>
       ELSE /\ FieldFailed(Error("expected equals sign", fork_pos + 1),
                           fork_pos + 1)
            /\ UNCHANGED <<cv_at_fork, cv_fork_pos>>
    /\ UNCHANGED <<tokens, input_pos, content_pos, content_end, content_at_fork,
                   tag, node, unexpected, result>>

\* input.advance_to(&fork) whatever the tuple attempt returned.
AdvanceAlways(ok, fork, at) == fork

\* The cursor of the input of ClassValue::parse after the tuple attempt: at
\* the fork when the attempt was Ok (input.advance_to(&fork)), where it was
\* (at) otherwise.
AdvanceTo(ok, fork, at) == IF ok THEN fork ELSE at

\* The Ok(tuple) arm for the tuple r: advance_to, then the arity check v.
TupleResult(r, v) ==
    /\ r.ok
    /\ cv_fork_pos' = r.next
    /\ IF v.ok
       THEN FieldParsed(v.field, AdvanceTo(r.ok, r.next, fork_pos))
       ELSE FieldFailed(v.err, AdvanceTo(r.ok, r.next, fork_pos))

TupleArm(r) == TupleResult(r, TupleToClassValue(r.elems, r.next))

\* ClassValue::parse, fork.parse::<ExprTuple>() is Ok(tuple)
ClassValueTuple ==
    /\ pc = "classvalue"
    /\ TupleArm(ExprTupleParse(tokens, cv_fork_pos, content_end))
    /\ UNCHANGED <<tokens, input_pos, content_pos, content_end, content_at_fork,
                   cv_at_fork, tag, node, unexpected, result>>

\* The Err(_) arm, e being the expression the fork read, if it read one.
NotTupleArm(e) ==
    /\ ~OnlyTuple(e).ok
    /\ IF e.ok THEN cv_fork_pos' = e.next
       ELSE cv_fork_pos' \in cv_fork_pos..content_end
    /\ fork_pos' = AdvanceTo(OnlyTuple(e).ok, cv_fork_pos', fork_pos)

\* ClassValue::parse, fork.parse::<ExprTuple>() is Err(_): the fork stops
\* somewhere in the value, the input stays where it was.
ClassValueNotTuple ==
    /\ pc = "classvalue"
    /\ NotTupleArm(ParseExpr(tokens, cv_fork_pos, content_end))
    /\ pc' = "classstatic"
    /\ UNCHANGED <<tokens, input_pos, content_pos, content_end, content_at_fork,
                   cv_at_fork, new_attrs, attrs_err, tag, node, unexpected,
                   result>>

\* ClassValue::Static of the expression e read from the input.
StaticResult(e) ==
    IF e.ok
    THEN FieldParsed(ClassStatic(SubSeq(tokens, fork_pos, e.next - 1)), e.next)
    ELSE FieldFailed(Error("expected expression", fork_pos), fork_pos)

\* ClassValue::parse: Ok(ClassValue::Static(input.parse()?))
ClassValueStatic ==
    /\ pc = "classstatic"
    /\ StaticResult(ParseExpr(tokens, fork_pos, content_end))
    /\ UNCHANGED <<tokens, input_pos, content_pos, content_end, content_at_fork,
                   cv_at_fork, cv_fork_pos, tag, node, unexpected, result>>

\* The cursor of content after content.advance_to(&fork).
AdvanceToFork(content, fork) == fork

\* Ok(new_attrs): the fork reached the end of the group.
FieldsParsed ==
    /\ pc = "fields"
    /\ fork_pos >= content_end
    /\ fields_paren_token' = TRUE
    /\ fields' = new_attrs
    /\ content_pos' = AdvanceToFork(content_pos, fork_pos)
    /\ pc' = "group2"
    /\ UNCHANGED <<tokens, input_pos, content_end, content_at_fork, fork_pos,
                   cv_at_fork, cv_fork_pos, new_attrs, attrs_err, tag,
                   children_paren_token, children, parsed_children, unexpected,
                   result>>

\* The error of the Err(attrs_err) arm when the children fail too.
CombinedError(at, fields_error, children_error) ==
    Error("expected attributes or children", at)
        \o fields_error \o children_error

\* The stream the Err(attrs_err) arm parses the children from: input, the
\* outer stream, whose cursor is past the group.
FallbackStream == [pos |-> input_pos, end |-> input_end]

\* parsed_children left as it was in the Err(attrs_err) arm.
ParsedChildrenNotSet == FALSE

\* parsed_children = true; in the Err(attrs_err) arm
ParsedChildrenSet == TRUE

\* children = input.parse().map_err(..)?, c being what Children::parse gave.
FallbackResult(c) ==
    IF c.ok
    THEN /\ children' = c.elems
         /\ input_pos' = FallbackStream.end
         /\ pc' = "group2"
         /\ UNCHANGED <<ret, node_err>>
    ELSE /\ Return(CombinedError(content_pos, attrs_err, c.err))
         /\ UNCHANGED <<children, input_pos>>

\* Err(attrs_err): parsed_children = true; children = input.parse();
\* then content goes out of scope with its tokens unread.
ChildrenFallback ==
    /\ pc = "fallback"
    /\ parsed_children' = ParsedChildrenSet
    /\ unexpected' = (unexpected \/ content_pos < content_end)
    /\ FallbackResult(ChildrenParse(tokens, FallbackStream.pos,
                                    FallbackStream.end))
    /\ UNCHANGED <<tokens, cursors, new_attrs, attrs_err, tag,
                   fields_paren_token, fields, children_paren_token, outcome,
                   output>>

\* input.peek(token::Paren) && parsed_children
SecondGroupAfterFallback ==
    PeekParen(tokens, input_pos, input_end) /\ parsed_children

\* input.peek(token::Paren) && !parsed_children
SecondGroupFollows ==
    PeekParen(tokens, input_pos, input_end) /\ ~parsed_children

\* children = content.parse()?, c being what Children::parse gave; on an
\* error the content is dropped with its tokens unread.
ChildrenResult(c) ==
    IF c.ok
    THEN /\ children' = c.elems
         /\ ret' = "ok" /\ pc' = "view"
         /\ UNCHANGED <<node_err, unexpected>>
    ELSE /\ Return(c.err)
         /\ unexpected' = TRUE
         /\ UNCHANGED children

\* the second group: children = content.parse()?; then Ok(Node { .. })
ParseChildrenGroup ==
    /\ pc = "group2"
    /\ SecondGroupFollows
    /\ children_paren_token' = TRUE
    /\ input_pos' = Match(tokens, input_pos) + 1
    /\ ChildrenResult(ChildrenParse(tokens, input_pos + 1,
                                    Match(tokens, input_pos)))
    /\ UNCHANGED <<tokens, cursors, new_attrs, attrs_err, tag,
                   fields_paren_token, fields, parsed_children, outcome,
                   output>>

\* no second group: Ok(Node { .. })
NoChildrenGroup ==
    /\ pc = "group2"
    /\ ~SecondGroupFollows
    /\ ret' = "ok"
    /\ pc' = "view"
    /\ UNCHANGED <<tokens, input_pos, cursors, new_attrs, attrs_err, tag, node,
                   unexpected, node_err, outcome, output>>

\* parse_macro_input! without the check for tokens after the Node.
ParsedPrefix(r, unread, pos, end) == r = "ok" /\ ~unread

\* parse_macro_input!(tokens as Node): the Node, unless Node::parse failed,
\* a group buffer was left unread or tokens remain after the Node.
Parsed(r, unread, pos, end) == r = "ok" /\ ~unread /\ pos >= end

\* view: parse_macro_input!, then input.into_token_stream()
View ==
    /\ pc = "view"
    /\ IF Parsed(ret, unexpected, input_pos, input_end)
       THEN /\ outcome' = "tokens"
            /\ output' = NodeToTokens(tag, fields, children)
            /\ UNCHANGED node_err
       ELSE /\ outcome' = "diagnostic"
            /\ output' = <<>>
            /\ node_err' = IF ret = "err" THEN node_err
                           ELSE Error("unexpected token", input_pos)
    /\ pc' = "done"
    /\ UNCHANGED <<tokens, input_pos, cursors, new_attrs, attrs_err, tag, node,
                   unexpected, ret>>

Next ==
    \/ ParseTag
    \/ OpenFirstGroup
    \/ NoFirstGroup
    \/ ParseAttrOrStyle
    \/ ParseClass
    \/ ClassValueTuple
    \/ ClassValueNotTuple
    \/ ClassValueStatic
    \/ FieldsParsed
    \/ ChildrenFallback
    \/ ParseChildrenGroup
    \/ NoChildrenGroup
    \/ View

Spec == Init /\ [][Next]_vars

(***************************************************************************)
(* The shape of the literal, read off the tokens alone.                    *)
(***************************************************************************)
HasFirstGroup ==
    Len(tokens) >= 2 /\ tokens[1] \in Idents /\ tokens[2] = "("

\* The first group opens right after the tag; its content follows.
G1lo == 2 + 1

G1hi == Match(tokens, 2)

HasSecondGroup ==
    HasFirstGroup /\ G1hi + 1 <= Len(tokens) /\ tokens[G1hi + 1] = "("

G2lo == G1hi + 2

G2hi == Match(tokens, G1hi + 1)

RECURSIVE SplitFrom(_, _, _, _, _)
\* The pieces of s[i..hi-1] between commas outside any nested group.
SplitFrom(s, i, hi, d, cur) ==
    IF i >= hi THEN <<cur>>
    ELSE IF s[i] = "," /\ d = 0
         THEN <<cur>> \o SplitFrom(s, i + 1, hi, 0, <<>>)
    ELSE SplitFrom(s, i + 1, hi,
                   IF s[i] = "(" THEN d + 1 ELSE IF s[i] = ")" THEN d - 1 ELSE d,
                   Append(cur, s[i]))

\* The comma-separated entries of s[lo..hi-1], one trailing comma ignored.
Entries(s, lo, hi) ==
    IF lo >= hi THEN <<>>
    ELSE LET ps == SplitFrom(s, lo, hi, 0, <<>>) IN
         IF Len(ps) > 1 /\ ps[Len(ps)] = <<>>
         THEN SubSeq(ps, 1, Len(ps) - 1)
         ELSE ps

HasTrailingComma(s, lo, hi) == lo < hi /\ s[hi - 1] = ","

\* The whole of e is one expression.
IsExpr(e) ==
    e # <<>> /\ LET r == ParseExpr(e, 1, Len(e) + 1) IN r.ok /\ r.next = Len(e) + 1

AllExprs(es) == \A i \in 1..Len(es) : IsExpr(es[i])

\* Field f is what the entry en of a field list says.
MatchesEntry(f, en) ==
    LET v == SubSeq(en, 3, Len(en)) IN
    IF en[1] = "class"
    THEN \/ f = ClassStatic(v)
         \/ /\ f.variant = "ClassDynamic"
            /\ Len(f.value) = 2
            /\ v = <<"(">> \o f.value[1] \o <<",">> \o f.value[2] \o <<")">>
    ELSE IF en[1] = "style" THEN f = StyleField(v)
    ELSE f = AttrField(en[1], v)

Returned == pc \in {"view", "done"}

(***************************************************************************)
(* Claims.                                                                 *)
(***************************************************************************)

\* C1: for a literal T(G) whose only group G fails as a field list but is a
\* comma-separated expression list e1..en, Node::parse returns a Node with no
\* fields and exactly the children e1..en, and the output is
\* construct(T).child(e1)...child(en).
C1_SingleGroupBecomesChildren ==
    (/\ Returned
     /\ HasFirstGroup /\ G1hi = Len(tokens)
     /\ attrs_err # <<>>
     /\ ParseTerminatedExpr(tokens, G1lo, G1hi).ok)
    => /\ ret = "ok"
       /\ fields = <<>>
       /\ children = ParseTerminatedExpr(tokens, G1lo, G1hi).elems
       /\ pc = "done" =>
            /\ outcome = "tokens"
            /\ output = <<Call("leptos::html::" \o tag, <<>>)>>
                          \o [j \in 1..Len(children) |->
                                Call("child", <<children[j]>>)]

\* C2: the generator emits 1+n+m call fragments: the constructor call for the
\* tag, then one configuration call per field in declaration order (attr with
\* the literal name, classes, class, style), then one child call per child in
\* declaration order; with no fields and no children, the constructor alone.
C2_EmissionOrder ==
    outcome = "tokens" =>
        LET n == Len(fields)
            m == Len(children)
        IN /\ Len(output) = 1 + n + m
           /\ output[1] = [method |-> "leptos::html::" \o tag, args |-> <<>>]
           /\ \A i \in 1..n :
                LET f == fields[i]
                    o == output[1 + i]
                IN /\ f.variant = "Attr" =>
                        /\ o.method = "attr"
                        /\ o.args = << <<"\"" \o f.name \o "\"">>, f.value[1] >>
                   /\ f.variant = "ClassStatic" =>
                        o.method = "classes" /\ o.args = <<f.value[1]>>
                   /\ f.variant = "ClassDynamic" =>
                        o.method = "class" /\ o.args = <<f.value[1], f.value[2]>>
                   /\ f.variant = "Style" =>
                        o.method = "style" /\ o.args = <<f.value[1]>>
           /\ \A j \in 1..m :
                output[1 + n + j] = [method |-> "child", args |-> <<children[j]>>]

\* C2 witness: a class call and an attribute call followed by two different
\* children have been emitted.
C2_Witness ==
    /\ outcome = "tokens"
    /\ Len(fields) = 2 /\ Len(children) = 2
    /\ fields[1].variant = "ClassDynamic" /\ fields[2].variant = "Attr"
    /\ children[1] # children[2]

\* C3: when the first group is valid neither as a field list nor as a child
\* expression list, Node::parse fails with the combined diagnostic anchored at
\* the group, carrying the field-list error and the child-list error.
C3_NeitherInterpretationFails ==
    (/\ pc = "view"
     /\ HasFirstGroup
     /\ attrs_err # <<>>
     /\ ~ParseTerminatedExpr(tokens, G1lo, G1hi).ok)
    => /\ ret = "err"
       /\ Len(node_err) = 3
       /\ node_err[1] = [msg |-> "expected attributes or children", at |-> G1lo]
       /\ node_err[2] = attrs_err[1]
       /\ node_err[3] = ParseTerminatedExpr(tokens, G1lo, G1hi).err[1]

\* The class fields among fs.
IsClass(f) == f.variant \in {"ClassStatic", "ClassDynamic"}

LastClass(fs) ==
    LET cs == SelectSeq(fs, IsClass) IN
    IF cs = <<>> THEN AttrField("", <<>>) ELSE cs[Len(cs)]

\* What became of the class value that starts at cv_at_fork, once
\* ClassValue::parse has left the tuple attempt: k is the number of components
\* when the value is a tuple expression, one_item the message for k = 1.
ClassValueOutcome(one_item) ==
    (cv_at_fork # 0 /\ pc # "classvalue") =>
        LET r == ParseExpr(tokens, cv_at_fork, content_end)
            k == Len(r.elems)
            arity == "tuple has " \o CountText(k) \o " items, expected 2"
        IN /\ (r.ok /\ r.tuple /\ k = 2) =>
                LastClass(new_attrs) = ClassDynamic(r.elems[1], r.elems[2])
           /\ (r.ok /\ r.tuple /\ k >= 3) =>
                attrs_err = Error(arity, r.next)
           /\ (r.ok /\ r.tuple /\ k = 1) =>
                attrs_err = Error(one_item, r.next)
           /\ (r.ok /\ ~r.tuple /\ pc # "classstatic") =>
                LastClass(new_attrs)
                    = ClassStatic(SubSeq(tokens, cv_at_fork, r.next - 1))
           /\ (~r.ok /\ pc # "classstatic") =>
                attrs_err = Error("expected expression", cv_at_fork)

C5_SecondGroupIsChildren ==
    (Returned /\ HasSecondGroup /\ fields_paren_token) =>
        LET fs == Entries(tokens, G1lo, G1hi)
            cs == Entries(tokens, G2lo, G2hi)
        IN /\ Len(fields) = Len(fs)
           /\ \A i \in 1..Len(fs) : MatchesEntry(fields[i], fs[i])
           /\ IF AllExprs(cs)
              THEN ret = "ok" /\ children = cs /\ children_paren_token
              ELSE ret = "err" /\ children = <<>>

\* C5 witness: two fields and then two children came out of the two groups.
C5_Witness ==
    /\ pc = "done" /\ outcome = "tokens"
    /\ HasSecondGroup /\ children_paren_token
    /\ Len(fields) = 2 /\ Len(children) = 2

\* C6: for a first group exactly one branch is taken: either the field list
\* is committed (parsed_children stays false, children come only from a
\* second group), or the fallback runs (no fields, fields_paren_token stays
\* None, the second-group parse is skipped).
C6_ExactlyOneBranch ==
    /\ (HasFirstGroup /\ pc \in {"group2", "view", "done"}) =>
            (fields_paren_token # parsed_children)
    /\ pc \in {"fields", "classvalue", "classstatic", "fallback"} =>
            (~fields_paren_token /\ ~parsed_children)
    /\ parsed_children =>
            /\ fields = <<>>
            /\ ~fields_paren_token
            /\ ~children_paren_token
            /\ attrs_err # <<>>
    /\ fields_paren_token =>
            /\ ~parsed_children
            /\ attrs_err = <<>>
            /\ children # <<>> => children_paren_token

\* C6 witness: the fallback ran, took children, and Node::parse returned.
C6_Witness ==
    /\ pc = "done" /\ ret = "ok"
    /\ parsed_children /\ children # <<>>
    /\ tokens[input_end - 1] = ")"

\* C7: view returns a call chain only if Node::parse succeeded and consumed
\* the whole input; a token left after the Node is a diagnostic and no call
\* chain.
C7_WholeInputConsumed ==
    /\ outcome = "tokens" =>
            ret = "ok" /\ input_pos = input_end /\ output # <<>>
    /\ (pc = "done" /\ (ret # "ok" \/ input_pos < input_end)) =>
            outcome = "diagnostic" /\ output = <<>> /\ node_err # <<>>

\* C7 witness: a third group was left after a parsed Node and view returned
\* a diagnostic.
C7_Witness ==
    /\ pc = "done" /\ ret = "ok" /\ ~unexpected
    /\ children_paren_token
    /\ input_pos < input_end /\ tokens[input_pos] = "("
    /\ outcome = "diagnostic"

\* C8: an empty group is no error: T() is an empty field list and no
\* children, T()() and T(F)() have an empty child list, Children::parse of an
\* empty stream is the empty list, and T() and T()() emit the constructor
\* alone.
C8_EmptyGroups ==
    /\ (HasFirstGroup /\ G1hi = G1lo /\ pc \in {"group2", "view", "done"}) =>
            /\ fields_paren_token /\ fields = <<>>
            /\ ~parsed_children /\ attrs_err = <<>>
    /\ (Returned /\ HasFirstGroup /\ G1hi = G1lo /\ G1hi = Len(tokens)) =>
            ret = "ok" /\ children = <<>>
    /\ (Returned /\ HasSecondGroup /\ fields_paren_token /\ G2hi = G2lo) =>
            ret = "ok" /\ children = <<>> /\ children_paren_token
    /\ (Returned /\ parsed_children /\ G1hi = Len(tokens)) =>
            ret = "ok" /\ children = <<>>
    /\ (pc = "done" /\ HasFirstGroup /\ G1hi = G1lo
          /\ (G1hi = Len(tokens)
                \/ (HasSecondGroup /\ G2hi = G2lo /\ G2hi = Len(tokens)))) =>
            /\ outcome = "tokens"
            /\ output = <<[method |-> "leptos::html::" \o tag, args |-> <<>>]>>

\* C8 witness: T()() was translated.
C8_Witness ==
    /\ pc = "done"
    /\ tokens = <<"div", "(", ")", "(", ")">>
    /\ outcome = "tokens"

\* C9: a forked-from cursor moves to its fork only after the fork parsed: when
\* the field-list fork failed, content is where it was forked as the fallback
\* starts; when the tuple fork failed, the input of ClassValue::parse is where
\* it was forked as the single-expression parse starts.
C9_CommitOnlyOnSuccess ==
    /\ pc = "fallback" => content_pos = content_at_fork
    /\ pc = "classstatic" => fork_pos = cv_at_fork
    /\ content_pos # content_at_fork =>
            /\ fields_paren_token
            /\ attrs_err = <<>>
            /\ content_pos = fork_pos /\ fork_pos = content_end

\* C9 witness: the field-list fork failed after a tuple fork had failed too,
\* both having consumed tokens, and content has not moved.
C9_Witness ==
    /\ pc = "fallback"
    /\ fork_pos > content_at_fork
    /\ cv_fork_pos > cv_at_fork
    /\ LastClass(new_attrs).variant = "ClassStatic"
    /\ content_pos = content_at_fork

\* C10: a child group e1, ..., en gives n children in order, and the same
\* list with a trailing comma is rejected with a parse error.
C10_TrailingCommaRejected ==
    (Returned /\ HasSecondGroup /\ fields_paren_token
       /\ AllExprs(Entries(tokens, G2lo, G2hi))) =>
        IF HasTrailingComma(tokens, G2lo, G2hi)
        THEN ret = "err"
        ELSE ret = "ok" /\ children = Entries(tokens, G2lo, G2hi)

\* C10 as amended: a child group e1, ..., en gives n children in order, and
\* the same list with one trailing comma gives the same n children.
C10_TrailingCommaAccepted ==
    (Returned /\ HasSecondGroup /\ fields_paren_token
       /\ AllExprs(Entries(tokens, G2lo, G2hi))) =>
        ret = "ok" /\ children = Entries(tokens, G2lo, G2hi)

\* C10 witness: two children were taken from a group that ends in a comma.
C10_Witness ==
    /\ pc = "done" /\ ret = "ok"
    /\ HasSecondGroup /\ children_paren_token
    /\ HasTrailingComma(tokens, G2lo, G2hi)
    /\ Len(children) = 2

====
